---- MODULE Spec2Model ----
(***************************************************************************)
(* A model of the prompt-template sidebar: the date utilities              *)
(* (lib/dateUtils), the record store (lib/storage, storageUtils) and the   *)
(* filter effect of the PromptSidebar component.                           *)
(*                                                                         *)
(* Representation of JavaScript values                                     *)
(*   - a text (title, content, tag, search string) is a sequence of        *)
(*     one-character strings, so that toLowerCase and includes can be      *)
(*     computed;                                                           *)
(*   - a non-negative integer number (a timestamp) is a little-endian      *)
(*     sequence of limbs in base MsPerSecond without leading zero limbs    *)
(*     (<<>> is 0), because the threshold 10,000,000,000 and the largest   *)
(*     time value 8.64e15 do not fit a machine integer of the checker;     *)
(*   - a value passed as a date is a record tagged by k:                   *)
(*       "null", "undefined", "Date" (valid, t), "string" (v),             *)
(*       "number" (finite, neg, mag), "object" (shape, ...).               *)
(***************************************************************************)
EXTENDS Integers, Sequences, FiniteSets, TLC

(***************************************************************************)
(* Bounds of the model                                                     *)
(***************************************************************************)
MaxNow == 1          \* the clock ticks at most MaxNow times
TickMs == 1001       \* the milliseconds between two readings of the clock
MaxPrompts == 2      \* no call grows the stored collection beyond MaxPrompts records
MaxDocLen == 2       \* an imported document lists at most MaxDocLen entries
MaxOrd == 3          \* an import does not take the order field beyond MaxOrd

VARIABLES
  now,              \* the wall clock (Date.now()), in milliseconds
  hasChrome,        \* typeof chrome !== "undefined" && chrome.storage
  chromeStore,      \* chrome.storage.local under STORAGE_KEY
  localStore,       \* localStorage under STORAGE_KEY (what JSON.parse gives)
  lastOp,           \* the last storageUtils call: its argument and outcome
  dateIn,           \* the argument of the last date-utility call
  dateOut,          \* the function called and what it returned
  prompts,          \* PromptSidebar: the in-memory collection
  searchQuery,      \* PromptSidebar: the search string
  selectedTag,      \* PromptSidebar: the selected tag ("" when none)
  filteredPrompts,  \* PromptSidebar: the filtered view
  filterPending,    \* the filter effect is scheduled and has not run yet
  ctl,              \* PromptSidebar: the handler in flight and its position
  inst              \* the storageUtils call each open instance is running

storeVars == <<hasChrome, chromeStore, localStore, lastOp>>
dateVars == <<dateIn, dateOut>>
viewVars == <<prompts, searchQuery, selectedTag, filteredPrompts, filterPending>>
procVars == <<ctl, inst>>
vars == <<now, storeVars, dateVars, viewVars, procVars>>

(***************************************************************************)
(* Numbers                                                                 *)
(***************************************************************************)
MsPerSecond == 1000

RECURSIVE FromNat(_)
FromNat(n) == IF n = 0 THEN <<>> ELSE <<n % MsPerSecond>> \o FromNat(n \div MsPerSecond)

RECURSIVE Norm(_)
Norm(a) ==
  IF Len(a) = 0 THEN a
  ELSE IF a[Len(a)] = 0 THEN Norm(SubSeq(a, 1, Len(a) - 1))
  ELSE a

RECURSIVE NumLess(_, _)
NumLess(a, b) ==
  IF Len(a) # Len(b) THEN Len(a) < Len(b)
  ELSE IF Len(a) = 0 THEN FALSE
  ELSE IF a[Len(a)] # b[Len(b)] THEN a[Len(a)] < b[Len(b)]
  ELSE NumLess(SubSeq(a, 1, Len(a) - 1), SubSeq(b, 1, Len(b) - 1))

\* n * 1000: in base MsPerSecond the product is a shift by one limb
TimesThousand(a) == IF a = <<>> THEN <<>> ELSE <<0>> \o a

\* 10000000000, the seconds/milliseconds threshold of getValidDate
SecondsThreshold == <<0, 0, 0, 10>>

\* 8.64e15, the largest time value a Date holds; beyond it new Date(n) is
\* an Invalid Date, whose getTime() is NaN
MaxTimeValue == <<0, 0, 0, 0, 640, 8>>

(***************************************************************************)
(* Values passed as dates                                                  *)
(***************************************************************************)
Null == [k |-> "null"]
Undefined == [k |-> "undefined"]
DateObj(t) == [k |-> "Date", valid |-> TRUE, t |-> t]
InvalidDate == [k |-> "Date", valid |-> FALSE, t |-> <<>>]
Str(v) == [k |-> "string", v |-> v]
NumVal(mag) == [k |-> "number", finite |-> TRUE, neg |-> FALSE, mag |-> mag]
NegNum(mag) == [k |-> "number", finite |-> TRUE, neg |-> TRUE, mag |-> mag]
NotFinite == [k |-> "number", finite |-> FALSE, neg |-> FALSE, mag |-> <<>>]

\* The text of a string passed as a date: an ISO-8601 text, as toISOString
\* writes it (the seconds, and the three digits after the dot), or any
\* other text, given by its characters.
IsoText(sec, ms) == [f |-> "iso", sec |-> sec, ms |-> ms]
OtherText(chars) == [f |-> "text", chars |-> chars]

WhiteSpace == {" ", "\t", "\n"}

\* String.prototype.trim() = ""
TrimIsEmpty(v) == v.f = "text" /\ \A i \in 1..Len(v.chars) : v.chars[i] \in WhiteSpace

\* toISOString with the milliseconds left out (a text of second precision)
toISOString_NoMillis(t) ==
  IF t = <<>> THEN IsoText(<<>>, 0) ELSE IsoText(Tail(t), 0)

\* Date.prototype.toISOString
toISOString(t) ==
  IF t = <<>> THEN IsoText(<<>>, 0) ELSE IsoText(Tail(t), Head(t))

\* new Date(string): the time value, or NaN (modelled as an Invalid Date).
\* A text that is not an ISO text is one the engine does not parse.
NewDateFromString(v) ==
  IF v.f = "iso" THEN DateObj(Norm(<<v.ms>> \o v.sec)) ELSE InvalidDate

\* new Date(number) for a finite non-negative integer
NewDateFromNumber(mag) ==
  IF NumLess(MaxTimeValue, mag) THEN InvalidDate ELSE DateObj(mag)

(***************************************************************************)
(* dateUtils                                                               *)
(***************************************************************************)
\* isNaN(d.getTime()) ? null : d
ValidOrNull(d) == IF d.valid THEN d ELSE Null

\* getValidDate with every number taken as milliseconds
getValidDate_NoSeconds(dateInput) ==
  IF dateInput.k \in {"null", "undefined"} THEN Null
  ELSE IF dateInput.k = "Date" THEN ValidOrNull(dateInput)
  ELSE IF dateInput.k = "string" THEN
    (IF TrimIsEmpty(dateInput.v) THEN Null
     ELSE ValidOrNull(NewDateFromString(dateInput.v)))
  ELSE IF dateInput.k = "number" THEN
    (IF ~dateInput.finite \/ dateInput.neg THEN Null
     ELSE ValidOrNull(NewDateFromNumber(dateInput.mag)))
  ELSE Null

getValidDate(dateInput) ==
  IF dateInput.k \in {"null", "undefined"} THEN Null
  ELSE IF dateInput.k = "Date" THEN ValidOrNull(dateInput)
  ELSE IF dateInput.k = "string" THEN
    (IF TrimIsEmpty(dateInput.v) THEN Null
     ELSE ValidOrNull(NewDateFromString(dateInput.v)))
  ELSE IF dateInput.k = "number" THEN
    (IF ~dateInput.finite \/ dateInput.neg THEN Null
     ELSE ValidOrNull(NewDateFromNumber(IF NumLess(dateInput.mag, SecondsThreshold)
                                        THEN TimesThousand(dateInput.mag)
                                        ELSE dateInput.mag)))
  ELSE Null

\* new Date() / createCurrentDate() at clock value t
createCurrentDate(t) == DateObj(FromNat(t))

\* d || new Date(), for d a Date or null
OrNow(d, t) == IF d = Null THEN createCurrentDate(t) ELSE d

\* getValidDateWithFallback without the fallback
getValidDateWithFallback_NoFallback(dateInput, t) ==
  getValidDate(dateInput)

getValidDateWithFallback(dateInput, t) ==
  OrNow(getValidDate(dateInput), t)

\* dateToISOString handing the value on as it is
dateToISOString_AsGiven(dateInput, t) == dateInput

dateToISOString(dateInput, t) ==
  Str(toISOString(getValidDateWithFallback(dateInput, t).t))

\* Objects: shape "plain" is {} (what chrome.storage makes of a Date),
\* "dateLike" has a getTime method returning the number time,
\* "isoLike" has a toISOString method returning the string iso.
PlainObject == [k |-> "object", shape |-> "plain"]
DateLike(time) == [k |-> "object", shape |-> "dateLike", time |-> time]
IsoLike(iso) == [k |-> "object", shape |-> "isoLike", iso |-> iso]

\* Object.prototype.toString of a plain object: "[object Object]"
ObjectToString ==
  OtherText(<<"[", "o", "b", "j", "e", "c", "t", " ", "O", "b", "j", "e", "c", "t", "]">>)

\* new Date(x) for x the number a getTime method returned: NaN, or a
\* non-negative integer (instants before 1970 are not part of the model)
NewDateFromNumVal(x) ==
  IF ~x.finite THEN InvalidDate ELSE NewDateFromNumber(x.mag)

\* restoreDateFromStorage without the final new Date()
restoreDateFromStorage_NoFallback(storedDate, t) == getValidDate(storedDate)

\* The string and number branches, and the last attempt of the object
\* branch (on storedDate.toString()), each return getValidDate's Date when
\* there is one and fall through to the final new Date() otherwise.
restoreDateFromStorage(storedDate, t) ==
  IF storedDate.k \in {"null", "undefined"} THEN createCurrentDate(t)
  ELSE IF storedDate.k = "Date" THEN
    (IF storedDate.valid THEN storedDate ELSE createCurrentDate(t))
  ELSE IF storedDate.k = "object" /\ storedDate.shape = "dateLike"
    THEN NewDateFromNumVal(storedDate.time)
  ELSE IF storedDate.k = "object" /\ storedDate.shape = "isoLike"
    THEN NewDateFromString(storedDate.iso)
  ELSE IF storedDate.k \in {"string", "object", "number"}
    THEN OrNow(getValidDate(IF storedDate.k = "object" THEN Str(ObjectToString)
                            ELSE storedDate), t)
  ELSE createCurrentDate(t)

(***************************************************************************)
(* The date utilities as a program: one call at a time, on an argument     *)
(* drawn from DateInputs, at the current clock value.                      *)
(***************************************************************************)
NumberInputs ==
  { <<>>,                       \* 0
    <<1>>,                      \* 1
    <<0, 0, 10>>,               \* 10000000
    <<0, 0, 700, 1>>,           \* 1700000000
    <<999, 999, 999, 9>>,       \* 9999999999
    <<0, 0, 0, 10>>,            \* 10000000000
    <<0, 0, 0, 700, 1>>,        \* 1700000000000
    <<0, 0, 0, 0, 640, 8>>,     \* 8640000000000000
    <<1, 0, 0, 0, 640, 8>>,     \* 8640000000000001
    <<0, 0, 0, 0, 0, 10>> }     \* 10000000000000000

InstantInputs == { <<>>, <<5>>, <<500, 1>>, <<0, 2>> }

StringInputs ==
  { OtherText(<<>>), OtherText(<<" ">>), OtherText(<<" ", "\t">>),
    OtherText(<<"x">>), OtherText(<<" ", "x">>) }
  \cup { toISOString(t) : t \in InstantInputs }

DateInputs ==
  { Null, Undefined, InvalidDate, NotFinite, PlainObject }
  \cup { DateObj(t) : t \in InstantInputs }
  \cup { Str(v) : v \in StringInputs }
  \cup { NumVal(m) : m \in NumberInputs }
  \cup { NegNum(m) : m \in { <<1>>, <<0, 0, 700, 1>> } }
  \cup { DateLike(NumVal(<<500, 1>>)), DateLike(NotFinite),
         IsoLike(toISOString(<<500, 1>>)), IsoLike(OtherText(<<"x">>)) }

NoCall == [fn |-> "none", op |-> "none"]

InitDate ==
  /\ now = 0
  /\ dateIn = Undefined
  /\ dateOut = NoCall
  /\ hasChrome = TRUE
  /\ chromeStore = <<>>
  /\ localStore = <<>>
  /\ lastOp = NoCall
  /\ prompts = <<>>
  /\ searchQuery = <<>>
  /\ selectedTag = <<>>
  /\ filteredPrompts = <<>>
  /\ filterPending = FALSE
  /\ ctl = NoCall
  /\ inst = <<>>

Tick ==
  /\ lastOp = NoCall
  /\ now + TickMs <= MaxNow * TickMs
  /\ now' = now + TickMs
  /\ UNCHANGED <<storeVars, dateVars, viewVars, procVars>>

CallGetValidDate ==
  \E x \in DateInputs :
    /\ dateIn' = x
    /\ dateOut' = [fn |-> "getValidDate", at |-> now, out |-> getValidDate(x)]
    /\ UNCHANGED <<now, storeVars, viewVars, procVars>>

CallGetValidDateWithFallback ==
  \E x \in DateInputs :
    /\ dateIn' = x
    /\ dateOut' = [fn |-> "getValidDateWithFallback", at |-> now,
                   out |-> getValidDateWithFallback(x, now)]
    /\ UNCHANGED <<now, storeVars, viewVars, procVars>>

CallRestoreDateFromStorage ==
  \E x \in DateInputs :
    /\ dateIn' = x
    /\ dateOut' = [fn |-> "restoreDateFromStorage", at |-> now,
                   out |-> restoreDateFromStorage(x, now)]
    /\ UNCHANGED <<now, storeVars, viewVars, procVars>>

CallDateToISOString ==
  \E x \in DateInputs :
    /\ dateIn' = x
    /\ dateOut' = [fn |-> "dateToISOString", at |-> now,
                   out |-> dateToISOString(x, now)]
    /\ UNCHANGED <<now, storeVars, viewVars, procVars>>

NextDate ==
  \/ Tick
  \/ CallGetValidDate
  \/ CallGetValidDateWithFallback
  \/ CallRestoreDateFromStorage
  \/ CallDateToISOString

SpecDate == InitDate /\ [][NextDate]_vars

(***************************************************************************)
(* C7. Numeric normalization.                                              *)
(***************************************************************************)
IsNumberCall ==
  dateOut.fn = "getValidDate" /\ dateIn.k = "number"

\* C7 as stated: for every finite non-negative number n, getValidDate(n)
\* is the instant n*1000 ms when n < 10,000,000,000 and the instant n ms
\* otherwise; a negative or non-finite n yields no value.
C7_AsStated ==
  IsNumberCall =>
    IF ~dateIn.finite \/ dateIn.neg THEN dateOut.out = Null
    ELSE IF NumLess(dateIn.mag, SecondsThreshold)
         THEN dateOut.out = DateObj(TimesThousand(dateIn.mag))
         ELSE dateOut.out = DateObj(dateIn.mag)

\* C7 (amended): for a finite non-negative integer n, getValidDate(n) is
\* the instant n*1000 ms when n < 10,000,000,000, the instant n ms when
\* 10,000,000,000 <= n <= 8.64e15 (the largest time value), and no value
\* when n > 8.64e15; a negative or non-finite n yields no value.  Hence
\* 1700000000 and 1700000000000 normalize to the same instant, and so do
\* s and s*1000 whenever s < 10,000,000,000 <= s*1000 <= 8.64e15.
C7_NumericNormalization ==
  /\ IsNumberCall =>
       IF ~dateIn.finite \/ dateIn.neg THEN dateOut.out = Null
       ELSE IF NumLess(dateIn.mag, SecondsThreshold)
            THEN dateOut.out = DateObj(TimesThousand(dateIn.mag))
       ELSE IF NumLess(MaxTimeValue, dateIn.mag) THEN dateOut.out = Null
       ELSE dateOut.out = DateObj(dateIn.mag)
  /\ (IsNumberCall /\ dateIn \in {NumVal(<<0, 0, 700, 1>>), NumVal(<<0, 0, 0, 700, 1>>)})
       => dateOut.out = DateObj(<<0, 0, 0, 700, 1>>)
  /\ (IsNumberCall /\ dateIn = NumVal(<<999, 999, 999, 9>>))
       => dateOut.out = DateObj(<<0, 999, 999, 999, 9>>)

\* a seconds-range number has been normalized
C7_Witness ==
  IsNumberCall /\ dateIn = NumVal(<<0, 0, 700, 1>>) /\ dateOut.out.k = "Date"

(***************************************************************************)
(* C8. Fallback normalization.                                             *)
(***************************************************************************)
IsAbsentOrUnparsable(x) ==
  \/ x.k \in {"null", "undefined"}
  \/ x.k = "string" /\ x.v.f = "text"

NoFault == [primary |-> FALSE, fallback |-> FALSE]

\* The try block throws and the localStorage access of the catch block
\* throws as well: the promise rejects
BothFail(f) == f.primary /\ f.fallback

\* The store an access that does not reject ends up using: chrome.storage
\* when it is there and works, localStorage otherwise
StoreUsed(st, f) == IF ~f.primary /\ st.hasChrome THEN "chrome" ELSE "local"

\* An operation that reads and then writes takes the faults of its two
\* accesses: f.read for its getPrompts, f.write for its savePrompts
NoFaults == [read |-> NoFault, write |-> NoFault]

IdsOf(seq) == { seq[i].id : i \in 1..Len(seq) }

\* prompts.map(prompt => ({...prompt, createdAt: dateToISOString(...), ...}))
SerializePrompts(ps, t) ==
  LET ser(prompt) == [prompt EXCEPT !.createdAt = dateToISOString(prompt.createdAt, t),
                                    !.updatedAt = dateToISOString(prompt.updatedAt, t)]
  IN  [i \in 1..Len(ps) |-> ser(ps[i])]

\* rawPrompts.map(prompt => ({...prompt, createdAt: restoreDateFromStorage(...), ...}))
RestorePrompts(raw, t) ==
  LET res(prompt) == [prompt EXCEPT !.createdAt = restoreDateFromStorage(prompt.createdAt, t),
                                    !.updatedAt = restoreDateFromStorage(prompt.updatedAt, t)]
  IN  [i \in 1..Len(raw) |-> res(raw[i])]

\* The result is [st, threw]: the storage state afterwards, and whether the
\* promise rejected.
savePrompts(st, ps, t, f) ==
  IF BothFail(f) THEN [st |-> st, threw |-> TRUE]
  ELSE [st |-> [st EXCEPT ![StoreUsed(st, f)] = SerializePrompts(ps, t)],
        threw |-> FALSE]

\* The result is [v, threw]: the prompts read, and whether the promise
\* rejected.
getPrompts(st, t, f) ==
  IF BothFail(f) THEN [v |-> <<>>, threw |-> TRUE]
  ELSE [v |-> RestorePrompts(st[StoreUsed(st, f)], t), threw |-> FALSE]

\* A rejected getPrompts rejects the call that awaits it
addPrompt(st, prompt, t, f) ==
  IF BothFail(f.read) THEN [st |-> st, threw |-> TRUE]
  ELSE savePrompts(st, Append(getPrompts(st, t, f.read).v, prompt), t, f.write)

\* prompts.findIndex(p => p.id === id): 0 stands for -1
FindIndex(ps, id) ==
  IF \E i \in 1..Len(ps) : ps[i].id = id
  THEN CHOOSE i \in 1..Len(ps) :
         ps[i].id = id /\ \A j \in 1..(i - 1) : ps[j].id # id
  ELSE 0

\* the body of updatePrompt saving also when the id is not found
ReplaceAt_AlwaysSaves(st, ps, index, updatedPrompt, t, f) ==
  IF index # 0
  THEN savePrompts(st, [ps EXCEPT ![index] = updatedPrompt], t, f)
  ELSE savePrompts(st, ps, t, f)

\* if (index !== -1) { prompts[index] = updatedPrompt; savePrompts(prompts) }
ReplaceAt(st, ps, index, updatedPrompt, t, f) ==
  IF index # 0
  THEN savePrompts(st, [ps EXCEPT ![index] = updatedPrompt], t, f)
  ELSE [st |-> st, threw |-> FALSE]

\* updatePrompt once getPrompts has given ps
ReplaceIn(st, ps, updatedPrompt, t, f) ==
  ReplaceAt(st, ps, FindIndex(ps, updatedPrompt.id), updatedPrompt, t, f)

updatePrompt(st, updatedPrompt, t, f) ==
  IF BothFail(f.read) THEN [st |-> st, threw |-> TRUE]
  ELSE ReplaceIn(st, getPrompts(st, t, f.read).v, updatedPrompt, t, f.write)

deletePrompt(st, promptId, t, f) ==
  LET keep(p) == p.id # promptId
  IN  IF BothFail(f.read) THEN [st |-> st, threw |-> TRUE]
      ELSE savePrompts(st, SelectSeq(getPrompts(st, t, f.read).v, keep), t, f.write)

\* reorderPrompts saving the list without rewriting the order fields
reorderPrompts_KeepsOrder(st, reorderedPrompts, t, f) ==
  savePrompts(st, reorderedPrompts, t, f)

reorderPrompts(st, reorderedPrompts, t, f) ==
  LET promptsWithOrder ==
        [index \in 1..Len(reorderedPrompts) |->
           [reorderedPrompts[index] EXCEPT !.order = index - 1]]
  IN  savePrompts(st, promptsWithOrder, t, f)

(***************************************************************************)
(* importPrompts.  A file is                                               *)
(*   [file |-> "unreadable"]            file.text() rejects                *)
(*   [file |-> "notJSON"]               JSON.parse throws                  *)
(*   [file |-> "json", data |-> d]      d is Null or                       *)
(*                                      [k |-> "object", prompts |-> p]    *)
(* where p is Undefined (no prompts field), NonArray(truthy) or            *)
(* ArrayOf(entries); an entry is Null or a candidate, an object whose id,  *)
(* title and content are Undefined or Str(v), whose tags are Undefined or  *)
(* ArrayOf(tags), and whose createdAt, updatedAt are values passed as      *)
(* dates.                                                                  *)
(***************************************************************************)
NonArray(truthy) == [k |-> "other", truthy |-> truthy]
ArrayOf(v) == [k |-> "array", v |-> v]

\* !x is false, for x an id (a string) and for x a text
TruthyId(x) == x.k = "string" /\ x.v # ""
TruthyText(x) == x.k = "string" /\ x.v # <<>>

RECURSIVE MaxOrder(_)
\* Math.max(...existingPrompts.map(p => p.order)) of a non-empty list
MaxOrder(ps) ==
  IF Len(ps) = 1 THEN ps[1].order
  ELSE LET m == MaxOrder(Tail(ps))
       IN  IF ps[1].order > m THEN ps[1].order ELSE m

\* the catch block reporting a success
ImportFailed_ReportsSuccess(st, message) ==
  [st |-> st, threw |-> FALSE,
   result |-> [success |-> TRUE, imported |-> 0, message |-> message]]

ImportFailed(st, message) ==
  [st |-> st, threw |-> FALSE,
   result |-> [success |-> FALSE, imported |-> 0, message |-> message]]

\* the filter callback taking an equal title alone for a duplicate
IsNewPrompt_TitleOnly(prompt, existingPrompts) ==
  IF ~TruthyId(prompt.id) \/ ~TruthyText(prompt.title) \/ ~TruthyText(prompt.content)
  THEN FALSE
  ELSE LET isDuplicate ==
             \E i \in 1..Len(existingPrompts) :
               existingPrompts[i].title = prompt.title.v
       IN  ~isDuplicate

\* The callback of importData.prompts.filter: TRUE to keep the entry
IsNewPrompt(prompt, existingPrompts) ==
  IF ~TruthyId(prompt.id) \/ ~TruthyText(prompt.title) \/ ~TruthyText(prompt.content)
  THEN FALSE
  ELSE LET isDuplicate ==
             \E i \in 1..Len(existingPrompts) :
               /\ existingPrompts[i].title = prompt.title.v
               /\ existingPrompts[i].content = prompt.content.v
       IN  ~isDuplicate

\* getValidDate(x) || now
ValidDateOr(x, t) == OrNow(getValidDate(x), t)

\* promptsToAdd with order counted from the index alone
PromptsToAdd_OrderFromIndex(newPrompts, maxOrder, t) ==
  [index \in 1..Len(newPrompts) |->
     [id |-> newPrompts[index].id.v,
      title |-> newPrompts[index].title.v,
      content |-> newPrompts[index].content.v,
      order |-> index - 1,
      createdAt |-> ValidDateOr(newPrompts[index].createdAt, t),
      updatedAt |-> ValidDateOr(newPrompts[index].updatedAt, t),
      tags |-> IF newPrompts[index].tags.k = "array"
               THEN newPrompts[index].tags.v ELSE <<>>]]

\* newPrompts.map((prompt, index) => ({...prompt, order, createdAt, ...}))
PromptsToAdd(newPrompts, maxOrder, t) ==
  [index \in 1..Len(newPrompts) |->
     [id |-> newPrompts[index].id.v,
      title |-> newPrompts[index].title.v,
      content |-> newPrompts[index].content.v,
      order |-> maxOrder + 1 + (index - 1),
      createdAt |-> ValidDateOr(newPrompts[index].createdAt, t),
      updatedAt |-> ValidDateOr(newPrompts[index].updatedAt, t),
      tags |-> IF newPrompts[index].tags.k = "array"
               THEN newPrompts[index].tags.v ELSE <<>>]]

\* the return with the rejection of savePrompts left uncaught
ImportReturn_IgnoresRejection(st, saved, importedCount) ==
  [st |-> saved.st, threw |-> FALSE,
   result |-> [success |-> TRUE, imported |-> importedCount,
               message |-> "Successfully imported"]]

\* The return after the save: saved is what savePrompts gave
ImportReturn(st, saved, importedCount) ==
  IF saved.threw THEN ImportFailed(st, "write error")
  ELSE [st |-> saved.st, threw |-> FALSE,
        result |-> [success |-> TRUE, imported |-> importedCount,
                    message |-> IF importedCount > 0 THEN "Successfully imported"
                                ELSE "No new prompts to import (duplicates were skipped)"]]

\* if (newPrompts.length > 0) { ... savePrompts(allPrompts) } and the return
SaveImported(st, existingPrompts, newPrompts, t, f) ==
  IF Len(newPrompts) > 0
  THEN ImportReturn(st,
         savePrompts(st,
           existingPrompts \o
             PromptsToAdd(newPrompts,
                          IF Len(existingPrompts) > 0 THEN MaxOrder(existingPrompts)
                          ELSE -1,
                          t),
           t, f),
         Len(newPrompts))
  ELSE ImportReturn(st, [st |-> st, threw |-> FALSE], 0)

\* the filter rejecting the whole document for one candidate without id,
\* title or content
ImportEntries_AllOrNothing(st, existingPrompts, entries, t, f) ==
  IF \E i \in 1..Len(entries) :
       \/ entries[i].k # "object"
       \/ ~TruthyId(entries[i].id)
       \/ ~TruthyText(entries[i].title)
       \/ ~TruthyText(entries[i].content)
  THEN ImportFailed(st, "type error")
  ELSE LET keep(prompt) == IsNewPrompt(prompt, existingPrompts)
       IN  SaveImported(st, existingPrompts, SelectSeq(entries, keep), t, f)

\* importData.prompts.filter(...) over the entries, once getPrompts has
\* given existingPrompts; prompt.id of a null entry throws a TypeError
ImportEntries(st, existingPrompts, entries, t, f) ==
  IF \E i \in 1..Len(entries) : entries[i].k # "object"
  THEN ImportFailed(st, "type error")
  ELSE LET keep(prompt) == IsNewPrompt(prompt, existingPrompts)
       IN  SaveImported(st, existingPrompts, SelectSeq(entries, keep), t, f)

\* importPrompts looking for duplicates in an empty list instead of the
\* collection read
importPrompts_ComparesWithNothing(st, file, t, f) ==
  IF file.file = "unreadable" THEN ImportFailed(st, "read error")
  ELSE IF file.file = "notJSON" THEN ImportFailed(st, "syntax error")
  ELSE IF file.data.k # "object" THEN ImportFailed(st, "type error")
  ELSE IF file.data.prompts.k # "array"
  THEN ImportFailed(st, "Invalid file format: missing prompts array")
  ELSE IF BothFail(f.read) THEN ImportFailed(st, "read error")
  ELSE ImportEntries(st, <<>>, file.data.prompts.v, t, f.write)

\* The result is [st, threw, result]; importPrompts catches every error, so
\* threw is FALSE.
importPrompts(st, file, t, f) ==
  IF file.file = "unreadable" THEN ImportFailed(st, "read error")
  ELSE IF file.file = "notJSON" THEN ImportFailed(st, "syntax error")
  ELSE IF file.data.k # "object" THEN ImportFailed(st, "type error")
  ELSE IF file.data.prompts.k # "array"
  THEN ImportFailed(st, "Invalid file format: missing prompts array")
  ELSE IF BothFail(f.read) THEN ImportFailed(st, "read error")
  ELSE ImportEntries(st, getPrompts(st, t, f.read).v, file.data.prompts.v, t, f.write)

(***************************************************************************)
(* The record store as a program: one storageUtils call at a time, by one  *)
(* instance, with both stores working (NoFault).  lastOp holds the call    *)
(* that has just completed, until its caller takes the outcome (Settle).   *)
(***************************************************************************)
Ids == {"p1", "p2", "p3"}

TagDev == <<"d", "e", "v">>
TagArt == <<"a", "r", "t">>

\* What the form submits: title, content and the tags split from the input
Forms ==
  { [title |-> <<"A">>, content |-> <<"B">>, tags |-> <<TagDev>>],
    [title |-> <<"D">>, content |-> <<"B">>, tags |-> <<TagArt, TagDev>>] }

\* The one form submitted where the form is not what is examined
RaceForms == { [title |-> <<"A">>, content |-> <<"B">>, tags |-> <<TagDev>>] }

\* A record written by a version that stored Date objects: chrome.storage
\* keeps {} for a Date, and nothing for a field that was undefined
LegacyRecord ==
  [id |-> "p1", title |-> <<"A">>, content |-> <<"B">>, tags |-> <<TagDev>>,
   createdAt |-> PlainObject, updatedAt |-> Undefined, order |-> 0]

InitCollections == { <<>>, <<LegacyRecord>> }

Candidate(id, title, content, tags, createdAt, updatedAt) ==
  [k |-> "object", id |-> id, title |-> title, content |-> content,
   tags |-> tags, createdAt |-> createdAt, updatedAt |-> updatedAt]

\* The entries of the documents imported: null, three candidates with id,
\* title and content (the second differs from the first in content only,
\* the third in title only, and carries the id of the first), and three
\* candidates that lack the id, the title (empty) or the content.
Entries ==
  { Null,
    Candidate(Str("p1"), Str(<<"A">>), Str(<<"B">>), ArrayOf(<<TagDev>>),
              Str(toISOString(<<>>)), NumVal(<<>>)),
    Candidate(Str("p2"), Str(<<"A">>), Str(<<"C">>), Undefined,
              Undefined, Str(OtherText(<<"x">>))),
    Candidate(Str("p1"), Str(<<"D">>), Str(<<"B">>), ArrayOf(<<TagArt, TagDev>>),
              Null, PlainObject),
    Candidate(Undefined, Str(<<"D">>), Str(<<"C">>), ArrayOf(<<>>), Undefined, Undefined),
    Candidate(Str("p3"), Str(<<>>), Str(<<"C">>), ArrayOf(<<>>), Undefined, Undefined),
    Candidate(Str("p3"), Str(<<"D">>), Undefined, ArrayOf(<<>>), Undefined, Undefined) }

Files ==
  { [file |-> "unreadable"], [file |-> "notJSON"], [file |-> "json", data |-> Null] }
  \cup { [file |-> "json", data |-> [k |-> "object", prompts |-> p]] :
           p \in { Undefined, NonArray(FALSE), NonArray(TRUE) } }
  \cup { [file |-> "json", data |-> [k |-> "object", prompts |-> ArrayOf(v)]] :
           v \in UNION { [1..n -> Entries] : n \in 0..MaxDocLen } }

StOf(hc, cs, ls) == [hasChrome |-> hc, chrome |-> cs, local |-> ls]
St == StOf(hasChrome, chromeStore, localStore)

\* The collection under STORAGE_KEY in the store the try blocks use
Primary(st) == IF st.hasChrome THEN st.chrome ELSE st.local

SetStores(st) ==
  /\ chromeStore' = st.chrome
  /\ localStore' = st.local
  /\ UNCHANGED hasChrome

Init ==
  /\ now = 0
  /\ hasChrome \in BOOLEAN
  /\ chromeStore \in InitCollections
  /\ localStore = <<>>
  /\ hasChrome = FALSE => chromeStore = <<>>
  /\ lastOp = NoCall
  /\ dateIn = Undefined
  /\ dateOut = NoCall
  /\ prompts = <<>>
  /\ searchQuery = <<>>
  /\ selectedTag = <<>>
  /\ filteredPrompts = <<>>
  /\ filterPending = FALSE
  /\ ctl = NoCall
  /\ inst = <<>>

\* The timestamps of a record passed to addPrompt
DatePairs(t) ==
  { <<createCurrentDate(t), createCurrentDate(t)>>,
    <<InvalidDate, createCurrentDate(t)>> }

\* Each action binds the collection read and the outcome of the call once
\* (\E x \in {e} names the value of e).

\* handleSubmit, new prompt: a fresh id (uuidv4) and order = prompts.length
NewPrompt(id, form, d, n) ==
  [id |-> id, title |-> form.title, content |-> form.content,
   tags |-> form.tags, createdAt |-> d[1], updatedAt |-> d[2], order |-> n]

AddPrompt ==
  /\ lastOp = NoCall
  /\ \E id \in Ids, form \in Forms, d \in DatePairs(now) :
    \E newPrompt \in {NewPrompt(id, form, d, Len(Primary(St)))} :
      \E done \in {addPrompt(St, newPrompt, now, NoFaults)} :
        /\ Len(Primary(St)) < MaxPrompts
        /\ id \notin IdsOf(Primary(St))
        /\ SetStores(done.st)
        /\ lastOp' = [op |-> "addPrompt", arg |-> newPrompt, threw |-> done.threw]
        /\ UNCHANGED <<now, dateVars, viewVars, procVars>>

\* The record being edited: a record of the collection, or one that is no
\* longer stored
EditingPrompt(existing, index, id) ==
  IF index # 0 THEN existing[index]
  ELSE [id |-> id, title |-> <<"A">>, content |-> <<"B">>, tags |-> <<>>,
        createdAt |-> createCurrentDate(0), updatedAt |-> createCurrentDate(0),
        order |-> 0]

\* handleSubmit, edit: {...editingPrompt, title, content, tags, updatedAt}
UpdatedPrompt(editingPrompt, form, t) ==
  [editingPrompt EXCEPT !.title = form.title,
                        !.content = form.content,
                        !.tags = form.tags,
                        !.updatedAt = createCurrentDate(t)]

UpdatePrompt ==
  /\ lastOp = NoCall
  /\ \E id \in Ids, form \in Forms :
    \E existing \in {getPrompts(St, now, NoFault).v} :
      \E index \in {FindIndex(existing, id)} :
        \E updatedPrompt \in {UpdatedPrompt(EditingPrompt(existing, index, id), form, now)} :
          \E done \in {updatePrompt(St, updatedPrompt, now, NoFaults)} :
            /\ SetStores(done.st)
            /\ lastOp' = [op |-> "updatePrompt", arg |-> updatedPrompt,
                          found |-> index # 0, threw |-> done.threw]
            /\ UNCHANGED <<now, dateVars, viewVars, procVars>>

DeletePrompt ==
  /\ lastOp = NoCall
  /\ \E id \in Ids :
    \E done \in {deletePrompt(St, id, now, NoFaults)} :
      /\ SetStores(done.st)
      /\ lastOp' = [op |-> "deletePrompt", arg |-> id,
                    found |-> id \in IdsOf(Primary(St)), threw |-> done.threw]
      /\ UNCHANGED <<now, dateVars, viewVars, procVars>>

\* The injective sequences of positions of a list of length n: the ways to
\* list some or all of its elements in some order
Arrangements(n) ==
  { s \in UNION { [1..m -> 1..n] : m \in 1..n } :
      \A i, j \in DOMAIN s : i # j => s[i] # s[j] }

\* handleReorder: the list shown, in its new order.  The list shown is the
\* collection or, with a filter active, a part of it.
ReorderPrompts ==
  /\ lastOp = NoCall
  /\ \E existing \in {getPrompts(St, now, NoFault).v} :
    \E s \in Arrangements(Len(existing)) :
      \E reorderedPrompts \in {[i \in 1..Len(s) |-> existing[s[i]]]} :
        \E done \in {reorderPrompts(St, reorderedPrompts, now, NoFault)} :
          /\ SetStores(done.st)
          /\ lastOp' = [op |-> "reorderPrompts", arg |-> reorderedPrompts,
                        whole |-> Len(s) = Len(existing), threw |-> done.threw]
          /\ UNCHANGED <<now, dateVars, viewVars, procVars>>

ImportPrompts ==
  /\ lastOp = NoCall
  /\ \E file \in Files :
    \E done \in {importPrompts(St, file, now, NoFaults)} :
      /\ Len(Primary(done.st)) <= MaxPrompts
      /\ \A i \in 1..Len(Primary(done.st)) : Primary(done.st)[i].order <= MaxOrd
      /\ SetStores(done.st)
      /\ lastOp' = [op |-> "importPrompts", arg |-> file, again |-> FALSE,
                    result |-> done.result, threw |-> done.threw]
      /\ UNCHANGED <<now, dateVars, viewVars, procVars>>

\* The caller has taken the outcome of an import and imports the same file
\* once more
ImportAgain ==
  /\ lastOp.op = "importPrompts"
  /\ ~lastOp.again
  /\ \E done \in {importPrompts(St, lastOp.arg, now, NoFaults)} :
       /\ Len(Primary(done.st)) <= MaxPrompts
       /\ \A i \in 1..Len(Primary(done.st)) : Primary(done.st)[i].order <= MaxOrd
       /\ SetStores(done.st)
       /\ lastOp' = [op |-> "importPrompts", arg |-> lastOp.arg, again |-> TRUE,
                     result |-> done.result, threw |-> done.threw]
       /\ UNCHANGED <<now, dateVars, viewVars, procVars>>

\* The caller has taken the outcome of the call it awaited; the instance
\* makes its next call after that.
Settle ==
  /\ lastOp # NoCall
  /\ lastOp' = NoCall
  /\ UNCHANGED <<now, hasChrome, chromeStore, localStore, dateVars, viewVars, procVars>>

Next ==
  \/ Tick
  \/ AddPrompt
  \/ UpdatePrompt
  \/ DeletePrompt
  \/ ReorderPrompts
  \/ ImportPrompts
  \/ ImportAgain
  \/ Settle

Spec == Init /\ [][Next]_vars

(***************************************************************************)
(* loadPrompts: loadedPrompts.sort((a, b) => a.order - b.order), a stable  *)
(* sort                                                                    *)
(***************************************************************************)
RECURSIVE InsertByOrder(_, _)
InsertByOrder(p, sorted) ==
  IF sorted = <<>> THEN <<p>>
  ELSE IF p.order < sorted[1].order THEN <<p>> \o sorted
  ELSE <<sorted[1]>> \o InsertByOrder(p, Tail(sorted))

RECURSIVE SortByOrder(_)
SortByOrder(ps) ==
  IF ps = <<>> THEN <<>>
  ELSE InsertByOrder(ps[Len(ps)], SortByOrder(SubSeq(ps, 1, Len(ps) - 1)))

(***************************************************************************)
(* Claims about the record store                                           *)
(***************************************************************************)
StoresUnchanged == chromeStore' = chromeStore /\ localStore' = localStore

\* The collection under STORAGE_KEY in the primary store after the step
PrimaryAfter == Primary(StOf(hasChrome', chromeStore', localStore'))

\* The collection getPrompts returns in the current state
Listed == getPrompts(St, now, NoFault).v

\* C1: round trip.  After addPrompt(r), for r with valid timestamps and an
\* id not stored before, getPrompts returns exactly one record with r's
\* id, and it has r's title, content, tags, order and r's createdAt and
\* updatedAt instants.
C1_AddThenListRoundTrip ==
  (/\ lastOp.op = "addPrompt"
   /\ lastOp.arg.createdAt.valid
   /\ lastOp.arg.updatedAt.valid)
  => LET r == lastOp.arg
         hits == { i \in 1..Len(Listed) : Listed[i].id = r.id }
     IN  /\ Cardinality(hits) = 1
         /\ \A i \in hits :
              /\ Listed[i].title = r.title
              /\ Listed[i].content = r.content
              /\ Listed[i].tags = r.tags
              /\ Listed[i].order = r.order
              /\ Listed[i].createdAt.k = "Date" /\ Listed[i].createdAt.valid
              /\ Listed[i].updatedAt.k = "Date" /\ Listed[i].updatedAt.valid
              /\ Listed[i].createdAt.t = r.createdAt.t
              /\ Listed[i].updatedAt.t = r.updatedAt.t

\* a record stamped after the clock advanced (seconds and milliseconds
\* both non-zero) has been added to a non-empty collection
C1_Witness ==
  /\ lastOp.op = "addPrompt"
  /\ lastOp.arg.createdAt.valid
  /\ lastOp.arg.createdAt.t = <<1, 1>>
  /\ Len(Primary(St)) = 2

\* C2: after reorderPrompts(P), P a permutation of the stored collection,
\* the record stored at position i of P has order i (counted from 0), and
\* getPrompts sorted by order ascending is the sequence P (each record
\* with its new order).
C2_ReorderThenListIsP ==
  (lastOp.op = "reorderPrompts" /\ lastOp.whole)
  => LET P == lastOp.arg
         stored == Primary(St)
     IN  /\ Len(stored) = Len(P)
         /\ \A i \in 1..Len(P) : stored[i].id = P[i].id /\ stored[i].order = i - 1
         /\ SortByOrder(Listed) = [i \in 1..Len(P) |-> [P[i] EXCEPT !.order = i - 1]]

\* two records have been swapped: the one whose order was larger is first
C2_Witness ==
  /\ lastOp.op = "reorderPrompts"
  /\ lastOp.whole
  /\ Len(lastOp.arg) = 2
  /\ lastOp.arg[1].order > lastOp.arg[2].order

\* C3: updatePrompt(r) with an id that matches no stored record leaves
\* both stores as they were and does not throw.
C3_UpdateMissingIdIsNoOp ==
  [][ (/\ lastOp = NoCall
       /\ lastOp'.op = "updatePrompt"
       /\ lastOp'.arg.id \notin IdsOf(Primary(St)))
      => (StoresUnchanged /\ ~lastOp'.threw) ]_vars

\* updatePrompt has run with an unknown id on a non-empty collection
C3_Witness ==
  /\ lastOp.op = "updatePrompt"
  /\ lastOp.arg.id \notin IdsOf(Primary(St))
  /\ Len(Primary(St)) > 0

\* C4: deletePrompt(id) with an id that matches no stored record leaves
\* both stores as they were (same records, same field values including
\* the timestamps, same sequence) and does not throw.
C4_DeleteMissingIdIsNoOp ==
  [][ (/\ lastOp = NoCall
       /\ lastOp'.op = "deletePrompt"
       /\ lastOp'.arg \notin IdsOf(Primary(St)))
      => (StoresUnchanged /\ ~lastOp'.threw) ]_vars

\* A file whose prompts field is an array of objects
IsCandidateList(file) ==
  /\ file.file = "json"
  /\ file.data.k = "object"
  /\ file.data.prompts.k = "array"
  /\ \A i \in 1..Len(file.data.prompts.v) : file.data.prompts.v[i].k = "object"

\* A candidate with a non-empty id, title and content
ValidCandidate(c) ==
  /\ c.id.k = "string" /\ c.id.v # ""
  /\ c.title.k = "string" /\ Len(c.title.v) > 0
  /\ c.content.k = "string" /\ Len(c.content.v) > 0

SameTitleAndContent(c, ps) ==
  \E i \in 1..Len(ps) : ps[i].title = c.title.v /\ ps[i].content = c.content.v

\* C5: import deduplication.  For a document listing candidates, a valid
\* candidate whose (title, content) equals that of a record already stored
\* is not added and not counted (imported = 0 when every valid candidate is
\* such a duplicate); a valid candidate that differs in title or in content
\* is added and counted; the imported count is the number of records added
\* to the persisted collection.
C5_ImportDeduplicates ==
  [][ (/\ lastOp = NoCall
       /\ lastOp'.op = "importPrompts"
       /\ IsCandidateList(lastOp'.arg))
      => LET before == Primary(St)
             after == Primary(StOf(hasChrome', chromeStore', localStore'))
             cands == lastOp'.arg.data.prompts.v
             isNew(c) == ValidCandidate(c) /\ ~SameTitleAndContent(c, before)
             expected == SelectSeq(cands, isNew)
             added == SubSeq(after, Len(before) + 1, Len(after))
         IN  /\ lastOp'.result.success
             /\ Len(after) >= Len(before)
             /\ lastOp'.result.imported = Len(after) - Len(before)
             /\ Len(added) = Len(expected)
             /\ \A k \in 1..Len(added) :
                  /\ added[k].id = expected[k].id.v
                  /\ added[k].title = expected[k].title.v
                  /\ added[k].content = expected[k].content.v
             /\ (\A i \in 1..Len(cands) :
                   ValidCandidate(cands[i]) => SameTitleAndContent(cands[i], before))
                => lastOp'.result.imported = 0 ]_vars

\* a document with two valid candidates has been imported, and one of
\* them, a duplicate of a stored record, was not added
C5_Witness ==
  /\ lastOp.op = "importPrompts"
  /\ IsCandidateList(lastOp.arg)
  /\ Len(lastOp.arg.data.prompts.v) = 2
  /\ \A i \in 1..2 : ValidCandidate(lastOp.arg.data.prompts.v[i])
  /\ lastOp.result.imported = 1
  /\ Len(Primary(St)) = 2
  /\ \E i \in 1..2 :
       /\ Primary(St)[1].title = lastOp.arg.data.prompts.v[i].title.v
       /\ Primary(St)[1].content = lastOp.arg.data.prompts.v[i].content.v

\* C6: importing a document whose prompts field is missing or is not an
\* array returns success = false and imported = 0 and leaves both stores
\* as they were.
C6_ImportWithoutArrayFails ==
  [][ (/\ lastOp = NoCall
       /\ lastOp'.op = "importPrompts"
       /\ lastOp'.arg.file = "json"
       /\ lastOp'.arg.data.k = "object"
       /\ lastOp'.arg.data.prompts.k # "array")
      => (/\ lastOp'.result.success = FALSE
          /\ lastOp'.result.imported = 0
          /\ ~lastOp'.threw
          /\ StoresUnchanged) ]_vars

\* a document with a prompts field that is not an array has been imported
\* into a non-empty collection
C6_Witness ==
  /\ lastOp.op = "importPrompts"
  /\ lastOp.arg.file = "json"
  /\ lastOp.arg.data.k = "object"
  /\ lastOp.arg.data.prompts = NonArray(TRUE)
  /\ Len(Primary(St)) > 0

\* C10: no two stored records have the same id.
C10_IdsUnique ==
  \A i, j \in 1..Len(Primary(St)) :
    i # j => Primary(St)[i].id # Primary(St)[j].id


LargestOrder(ps) ==
  IF ps = <<>> THEN -1
  ELSE CHOOSE m \in { ps[i].order : i \in 1..Len(ps) } :
         \A i \in 1..Len(ps) : ps[i].order <= m

\* C19: import order assignment.  The k-th surviving candidate (k from 0)
\* is stored with order M + 1 + k, M the largest order of the existing
\* collection or -1 when it is empty; so every imported order is greater
\* than every existing order and the imported orders are pairwise distinct.
C19_ImportOrderContinuesFromMax ==
  [][ (/\ lastOp = NoCall
       /\ lastOp'.op = "importPrompts"
       /\ lastOp'.result.success)
      => LET before == Primary(St)
             after == Primary(StOf(hasChrome', chromeStore', localStore'))
             M == LargestOrder(before)
         IN  /\ Len(after) = Len(before) + lastOp'.result.imported
             /\ \A k \in 1..lastOp'.result.imported :
                  /\ after[Len(before) + k].order = M + 1 + (k - 1)
                  /\ \A i \in 1..Len(before) :
                       after[i].order < after[Len(before) + k].order
                  /\ \A l \in 1..lastOp'.result.imported :
                       l # k => after[Len(before) + l].order # after[Len(before) + k].order ]_vars

\* one record was imported into a collection whose only record had order
\* 1: it got order 2, not the length of the collection
C19_Witness ==
  /\ lastOp.op = "importPrompts"
  /\ lastOp.result.imported = 1
  /\ Len(Primary(St)) = 2
  /\ Primary(St)[1].order = 1
  /\ Primary(St)[2].order = 2

\* C29: one import adds no duplicates of its own.  Of the valid candidates
\* of a document that share a title and content and match no existing
\* record, at most one is added and counted: the records an import adds
\* differ pairwise in title or content, and imported is their number.
C29_ImportAddsNoDuplicates ==
  [][ (/\ lastOp = NoCall
       /\ lastOp'.op = "importPrompts"
       /\ IsCandidateList(lastOp'.arg))
      => LET added == SubSeq(PrimaryAfter, Len(Primary(St)) + 1, Len(PrimaryAfter))
         IN  /\ \A i, j \in 1..Len(added) :
                  (added[i].title = added[j].title /\ added[i].content = added[j].content)
                  => i = j
             /\ lastOp'.result.imported = Len(added) ]_vars

\* C28: import is idempotent.  When a well-formed document (a prompts
\* array of objects) has been imported with success and the same document
\* is imported again right after, the second import returns success with
\* imported = 0 and leaves both stores as they were.
C28_ImportIsIdempotent ==
  [][ (/\ lastOp.op = "importPrompts"
       /\ lastOp'.op = "importPrompts"
       /\ lastOp'.again
       /\ IsCandidateList(lastOp.arg)
       /\ lastOp.result.success)
      => /\ lastOp'.result.success
         /\ lastOp'.result.imported = 0
         /\ StoresUnchanged ]_vars

\* a document with two candidates, both added by its first import, has
\* been imported a second time
C28_Witness ==
  /\ lastOp.op = "importPrompts"
  /\ lastOp.again
  /\ IsCandidateList(lastOp.arg)
  /\ Len(lastOp.arg.data.prompts.v) = 2
  /\ \A i \in 1..2 : ValidCandidate(lastOp.arg.data.prompts.v[i])
  /\ Len(Primary(St)) = 2
  /\ \A i \in 1..2 : Primary(St)[i].title = lastOp.arg.data.prompts.v[i].title.v
                       /\ Primary(St)[i].content = lastOp.arg.data.prompts.v[i].content.v
  /\ lastOp.result.imported = 0

(***************************************************************************)
(* PromptSidebar: the filter effect                                        *)
(***************************************************************************)
\* String.prototype.toLowerCase on the letters the model uses
LowerChar(c) ==
  CASE c = "A" -> "a" [] c = "B" -> "b" [] c = "D" -> "d" [] c = "E" -> "e"
    [] c = "F" -> "f" [] c = "G" -> "g" [] c = "R" -> "r" [] c = "T" -> "t"
    [] c = "U" -> "u" [] c = "V" -> "v" [] c = "W" -> "w"
    [] OTHER -> c

toLowerCase(text) == [i \in 1..Len(text) |-> LowerChar(text[i])]

\* String.prototype.includes
includes(text, part) ==
  \E start \in 1..(Len(text) - Len(part) + 1) :
    SubSeq(text, start, start + Len(part) - 1) = part

\* the effect comparing the tags with the selected tag as they are written
FilterPrompts_CaseSensitiveTag(ps, query, tagSel) ==
  LET bySearch(prompt) ==
        \/ includes(toLowerCase(prompt.title), toLowerCase(query))
        \/ includes(toLowerCase(prompt.content), toLowerCase(query))
        \/ \E i \in 1..Len(prompt.tags) :
             includes(toLowerCase(prompt.tags[i]), toLowerCase(query))
      byTag(prompt) ==
        \E i \in 1..Len(prompt.tags) : prompt.tags[i] = tagSel
      filtered1 == IF query # <<>> THEN SelectSeq(ps, bySearch) ELSE ps
      filtered2 == IF tagSel # <<>> THEN SelectSeq(filtered1, byTag) ELSE filtered1
  IN  filtered2

\* The body of the effect on [prompts, searchQuery, selectedTag]: the value
\* passed to setFilteredPrompts
FilterPrompts(ps, query, tagSel) ==
  LET bySearch(prompt) ==
        \/ includes(toLowerCase(prompt.title), toLowerCase(query))
        \/ includes(toLowerCase(prompt.content), toLowerCase(query))
        \/ \E i \in 1..Len(prompt.tags) :
             includes(toLowerCase(prompt.tags[i]), toLowerCase(query))
      byTag(prompt) ==
        \E i \in 1..Len(prompt.tags) :
          toLowerCase(prompt.tags[i]) = toLowerCase(tagSel)
      filtered1 == IF query # <<>> THEN SelectSeq(ps, bySearch) ELSE ps
      filtered2 == IF tagSel # <<>> THEN SelectSeq(filtered1, byTag) ELSE filtered1
  IN  filtered2

\* getAllTags, as the set of the tags shown
getAllTags(ps) ==
  UNION { { ps[i].tags[j] : j \in 1..Len(ps[i].tags) } : i \in 1..Len(ps) }

(***************************************************************************)
(* The filter as a program: the collection, the search string and the      *)
(* selected tag change, and the effect recomputes the view after a change. *)
(***************************************************************************)
ViewRecord(id, title, content, tags, order) ==
  [id |-> id, title |-> title, content |-> content, tags |-> tags,
   createdAt |-> createCurrentDate(0), updatedAt |-> createCurrentDate(0),
   order |-> order]

ViewRecords ==
  << ViewRecord("p1", <<"F", "i", "x", " ", "b", "u", "g">>, <<"t", "r", "a", "c", "e">>,
                <<TagDev>>, 0),
     ViewRecord("p2", <<"W", "r", "i", "t", "e", " ", "p", "o", "e", "m">>, <<"o", "d", "e">>,
                <<TagArt>>, 1),
     ViewRecord("p3", <<"B", "U", "G", "S">>, <<"d", "a", "r", "t">>,
                <<<<"A", "r", "t">>, <<"D", "E", "V">>>>, 2) >>

ViewCollections ==
  { <<>> } \cup { [i \in 1..Len(s) |-> ViewRecords[s[i]]] : s \in Arrangements(Len(ViewRecords)) }

Searches ==
  { <<>>, <<"b", "u", "g">>, <<"B", "u", "g">>, <<"a", "r", "t">>, <<"e", " ">>, <<" ">> }

InitView ==
  /\ now = 0
  /\ hasChrome = TRUE
  /\ chromeStore = <<>>
  /\ localStore = <<>>
  /\ lastOp = NoCall
  /\ dateIn = Undefined
  /\ dateOut = NoCall
  /\ prompts = <<>>
  /\ searchQuery = <<>>
  /\ selectedTag = <<>>
  /\ filteredPrompts = <<>>
  /\ filterPending = TRUE
  /\ ctl = NoCall
  /\ inst = <<>>

\* setPrompts
SetPrompts ==
  \E c \in ViewCollections :
    /\ prompts' = c
    /\ filterPending' = TRUE
    /\ UNCHANGED <<now, storeVars, dateVars, searchQuery, selectedTag, filteredPrompts, procVars>>

\* the search input's onChange
SetSearchQuery ==
  \E q \in Searches :
    /\ searchQuery' = q
    /\ filterPending' = TRUE
    /\ UNCHANGED <<now, storeVars, dateVars, prompts, selectedTag, filteredPrompts, procVars>>

\* a tag badge's onClick
ToggleTag ==
  \E tag \in getAllTags(prompts) :
    /\ selectedTag' = IF selectedTag = tag THEN <<>> ELSE tag
    /\ filterPending' = TRUE
    /\ UNCHANGED <<now, storeVars, dateVars, prompts, searchQuery, filteredPrompts, procVars>>

\* the clear button's onClick
ClearTag ==
  /\ selectedTag # <<>>
  /\ getAllTags(prompts) # {}
  /\ selectedTag' = <<>>
  /\ filterPending' = TRUE
  /\ UNCHANGED <<now, storeVars, dateVars, prompts, searchQuery, filteredPrompts, procVars>>

FilterEffect ==
  /\ filterPending
  /\ filteredPrompts' = FilterPrompts(prompts, searchQuery, selectedTag)
  /\ filterPending' = FALSE
  /\ UNCHANGED <<now, storeVars, dateVars, prompts, searchQuery, selectedTag, procVars>>

NextView ==
  \/ SetPrompts
  \/ SetSearchQuery
  \/ ToggleTag
  \/ ClearTag
  \/ FilterEffect

SpecView == InitView /\ [][NextView]_vars

\* text contains part, letter case ignored
ContainsIgnoringCase(text, part) ==
  \E start \in 0..(Len(text) - Len(part)) :
    \A k \in 1..Len(part) : LowerChar(text[start + k]) = LowerChar(part[k])

EqualIgnoringCase(a, b) ==
  Len(a) = Len(b) /\ \A k \in 1..Len(a) : LowerChar(a[k]) = LowerChar(b[k])

SatisfiesFilters(p) ==
  /\ searchQuery # <<>> =>
       \/ ContainsIgnoringCase(p.title, searchQuery)
       \/ ContainsIgnoringCase(p.content, searchQuery)
       \/ \E i \in 1..Len(p.tags) : ContainsIgnoringCase(p.tags[i], searchQuery)
  /\ selectedTag # <<>> =>
       \E i \in 1..Len(p.tags) : EqualIgnoringCase(p.tags[i], selectedTag)

\* C9: once the filter effect has run, the filtered view is the
\* subsequence of the in-memory collection, in the same relative order, of
\* the records that satisfy both active filters (search: the title, the
\* content or some tag contains the search string, case ignored; tag: some
\* tag equals the selected tag, case ignored); with neither filter active
\* it is the whole collection.
C9_FilteredViewIsSubsequence ==
  ~filterPending =>
    /\ filteredPrompts = SelectSeq(prompts, SatisfiesFilters)
    /\ (searchQuery = <<>> /\ selectedTag = <<>>) => filteredPrompts = prompts

\* both filters are active on three records and the view keeps two of
\* them, one with a tag that differs from the selected tag in letter case
\* only
C9_Witness ==
  /\ ~filterPending
  /\ Len(prompts) = 3
  /\ searchQuery = <<"B", "u", "g">>
  /\ selectedTag = TagDev
  /\ Len(filteredPrompts) = 2
  /\ \E i \in 1..2 : filteredPrompts[i].tags = <<<<"A", "r", "t">>, <<"D", "E", "V">>>>

(***************************************************************************)
(* The record store under failing accesses and malformed stored data.      *)
(* One storageUtils call at a time; each access of the call may throw      *)
(* (for localStorage: getItem or setItem throws, or JSON.parse throws on   *)
(* what is stored).  The stores start with what any writer may have left   *)
(* under STORAGE_KEY.                                                      *)
(***************************************************************************)
Faults == [primary : BOOLEAN, fallback : BOOLEAN]
ReadWriteFaults == [read : Faults, write : Faults]

\* The instant of the stored ISO strings that parse
StoredInstant == <<1, 1>>

\* What a stored createdAt or updatedAt may hold: an ISO string, nothing,
\* null, {} (a Date as chrome.storage keeps it), a text that does not parse,
\* the empty string, a negative number, a number of seconds, and a number
\* beyond the range of Date
RawTimestamps ==
  { Str(toISOString(StoredInstant)), Undefined, Null, PlainObject,
    Str(OtherText(<<"x">>)), Str(OtherText(<<>>)), NegNum(<<5>>),
    NumVal(<<0, 0, 700, 1>>), NumVal(<<0, 0, 0, 0, 0, 10>>) }

RawRecord(id, createdAt, updatedAt, order) ==
  [id |-> id, title |-> <<"A">>, content |-> <<"B">>, tags |-> <<TagDev>>,
   createdAt |-> createdAt, updatedAt |-> updatedAt, order |-> order]

GoodRecord(id, order) ==
  RawRecord(id, Str(toISOString(StoredInstant)), Str(toISOString(StoredInstant)), order)

\* The collections found under STORAGE_KEY: none, one record with any
\* createdAt (and an updatedAt that parses, or the same value), and two
\* records of which the first or the second has a malformed timestamp
RawCollections ==
  { <<>> }
  \cup { <<RawRecord("p1", x, Str(toISOString(StoredInstant)), 0)>> : x \in RawTimestamps }
  \cup { <<RawRecord("p1", x, x, 0)>> : x \in RawTimestamps }
  \cup { <<RawRecord("p1", Undefined, PlainObject, 0), GoodRecord("p2", 1)>>,
         <<GoodRecord("p2", 0), RawRecord("p1", Str(OtherText(<<"x">>)), Null, 1)>> }

\* The lists passed to savePrompts: timestamps as Date, Invalid Date, ISO
\* string, number, or missing
SaveLists ==
  { <<>>,
    <<RawRecord("p1", DateObj(StoredInstant), InvalidDate, 0)>>,
    <<RawRecord("p1", Str(toISOString(StoredInstant)), NumVal(<<0, 0, 0, 700, 1>>), 0)>>,
    <<RawRecord("p1", Undefined, Null, 0)>>,
    <<RawRecord("p1", PlainObject, Str(OtherText(<<"x">>)), 0),
      RawRecord("p2", DateObj(<<>>), DateObj(StoredInstant), 1)>> }

\* The files imported: each kind of unusable file, a document with a null
\* entry, and documents with candidates
FaultFiles ==
  { [file |-> "unreadable"], [file |-> "notJSON"], [file |-> "json", data |-> Null],
    [file |-> "json", data |-> [k |-> "object", prompts |-> Undefined]] }
  \cup { [file |-> "json", data |-> [k |-> "object", prompts |-> ArrayOf(v)]] :
           v \in { <<>>,
                   <<Null>>,
                   <<Candidate(Str("p2"), Str(<<"A">>), Str(<<"C">>), Undefined,
                               Undefined, Str(OtherText(<<"x">>))), Null>>,
                   <<Candidate(Str("p2"), Str(<<"A">>), Str(<<"C">>), Undefined,
                               Undefined, Str(OtherText(<<"x">>)))>>,
                   <<Candidate(Str("p1"), Str(<<"A">>), Str(<<"B">>), ArrayOf(<<TagDev>>),
                               Str(toISOString(<<>>)), NumVal(<<>>))>> } }

InitFault ==
  /\ now = 0
  /\ hasChrome \in BOOLEAN
  /\ IF hasChrome
     THEN chromeStore \in RawCollections /\ localStore \in {<<>>, <<GoodRecord("p3", 0)>>}
     ELSE chromeStore = <<>> /\ localStore \in RawCollections
  /\ lastOp = NoCall
  /\ dateIn = Undefined
  /\ dateOut = NoCall
  /\ prompts = <<>>
  /\ searchQuery = <<>>
  /\ selectedTag = <<>>
  /\ filteredPrompts = <<>>
  /\ filterPending = FALSE
  /\ ctl = NoCall
  /\ inst = <<>>

FaultyGet ==
  /\ lastOp = NoCall
  /\ \E f \in Faults :
       \E done \in {getPrompts(St, now, f)} :
         /\ lastOp' = [op |-> "getPrompts", f |-> f, v |-> done.v, threw |-> done.threw]
         /\ UNCHANGED <<now, hasChrome, chromeStore, localStore, dateVars, viewVars, procVars>>

FaultySave ==
  /\ lastOp = NoCall
  /\ \E ps \in SaveLists, f \in Faults :
       \E done \in {savePrompts(St, ps, now, f)} :
         /\ SetStores(done.st)
         /\ lastOp' = [op |-> "savePrompts", f |-> f, arg |-> ps, threw |-> done.threw]
         /\ UNCHANGED <<now, dateVars, viewVars, procVars>>

FaultyImport ==
  /\ lastOp = NoCall
  /\ \E file \in FaultFiles, f \in ReadWriteFaults :
       \E done \in {importPrompts(St, file, now, f)} :
         /\ Len(done.st.chrome) <= MaxPrompts
         /\ Len(done.st.local) <= MaxPrompts
         /\ SetStores(done.st)
         /\ lastOp' = [op |-> "importPrompts", f |-> f, arg |-> file,
                       result |-> done.result, threw |-> done.threw]
         /\ UNCHANGED <<now, dateVars, viewVars, procVars>>

\* addPrompt of a record the form submits, each access of the call failing
\* or not
FaultyAdd ==
  /\ lastOp = NoCall
  /\ \E id \in Ids \ (IdsOf(chromeStore) \cup IdsOf(localStore)),
        form \in RaceForms, f \in ReadWriteFaults :
       \E newPrompt \in {NewPrompt(id, form,
                                   <<createCurrentDate(now), createCurrentDate(now)>>,
                                   Len(Primary(St)))} :
         \E done \in {addPrompt(St, newPrompt, now, f)} :
           /\ Len(done.st.chrome) <= MaxPrompts
           /\ Len(done.st.local) <= MaxPrompts
           /\ SetStores(done.st)
           /\ lastOp' = [op |-> "addPrompt", f |-> f, arg |-> newPrompt,
                         threw |-> done.threw]
           /\ UNCHANGED <<now, dateVars, viewVars, procVars>>

\* updatePrompt of a record of the collection, edited through the form
FaultyUpdate ==
  /\ lastOp = NoCall
  /\ \E form \in RaceForms, f \in ReadWriteFaults :
       \E existing \in {getPrompts(St, now, NoFault).v} :
         \E index \in 1..Len(existing) :
           \E updatedPrompt \in {UpdatedPrompt(existing[index], form, now)} :
             \E done \in {updatePrompt(St, updatedPrompt, now, f)} :
               /\ SetStores(done.st)
               /\ lastOp' = [op |-> "updatePrompt", f |-> f, arg |-> updatedPrompt,
                             threw |-> done.threw]
               /\ UNCHANGED <<now, dateVars, viewVars, procVars>>

\* deletePrompt of a record of the collection
FaultyDelete ==
  /\ lastOp = NoCall
  /\ \E id \in IdsOf(Primary(St)), f \in ReadWriteFaults :
       \E done \in {deletePrompt(St, id, now, f)} :
         /\ SetStores(done.st)
         /\ lastOp' = [op |-> "deletePrompt", f |-> f, arg |-> id, threw |-> done.threw]
         /\ UNCHANGED <<now, dateVars, viewVars, procVars>>

NextFault ==
  \/ Tick
  \/ FaultyGet
  \/ FaultySave
  \/ FaultyImport
  \/ Settle

SpecFault == InitFault /\ [][NextFault]_vars

\* The calls that read the collection and write it back (addPrompt,
\* updatePrompt, deletePrompt), from the same initial states
NextFaultRW ==
  \/ Tick
  \/ FaultyAdd
  \/ FaultyUpdate
  \/ FaultyDelete
  \/ Settle

SpecFaultRW == InitFault /\ [][NextFaultRW]_vars

\* C11: getPrompts never fails.  When the primary read throws it returns
\* the collection of the fallback store, and when the fallback read fails
\* too it returns an empty collection instead of raising.
C11_ListNeverFails ==
  lastOp.op = "getPrompts"
  => /\ ~lastOp.threw
     /\ lastOp.f.primary /\ ~lastOp.f.fallback
          => lastOp.v = RestorePrompts(localStore, now)
     /\ lastOp.f.primary /\ lastOp.f.fallback => lastOp.v = <<>>

(***************************************************************************)
(* PromptSidebar as a program: one instance, its in-memory collection      *)
(* (prompts) and the handler in flight (ctl).  A handler runs up to its    *)
(* await of the storageUtils call (pc = "store"), the call completes, and  *)
(* the handler continues with what follows the await (pc = "reflect", or   *)
(* "reload" for the loadPrompts of handleImport).  The list shown is the    *)
(* filtered view: the cards edited, deleted and dragged are those of       *)
(* filteredPrompts, which the filter effect recomputes after every change  *)
(* of prompts or selectedTag, before the next handler starts.  The clock   *)
(* stands still.                                                           *)
(***************************************************************************)
\* What storage holds when the sidebar opens: nothing, or a record that
\* savePrompts wrote
CtlCollections == { <<>>, <<GoodRecord("p1", 0)>> }

\* A collection that savePrompts wrote, of which two records carry the tag
\* art and one does not
TaggedCollection ==
  << GoodRecord("p1", 0),
     [GoodRecord("p2", 1) EXCEPT !.tags = <<TagArt>>],
     [GoodRecord("p3", 2) EXCEPT !.tags = <<TagArt, TagDev>>] >>

\* The documents imported through the sidebar
CtlFiles ==
  { [file |-> "notJSON"] }
  \cup { [file |-> "json", data |-> [k |-> "object", prompts |-> ArrayOf(v)]] :
           v \in { <<Candidate(Str("p2"), Str(<<"A">>), Str(<<"C">>), Undefined,
                               Undefined, Undefined)>>,
                   <<Candidate(Str("p1"), Str(<<"D">>), Str(<<"B">>), ArrayOf(<<TagArt>>),
                               Null, Null)>> } }

\* useEffect(() => { loadPrompts() }, []): the load is in flight at mount
InitCtl ==
  /\ now = 0
  /\ hasChrome = TRUE
  /\ chromeStore \in CtlCollections \cup {TaggedCollection}
  /\ localStore = <<>>
  /\ lastOp = NoCall
  /\ dateIn = Undefined
  /\ dateOut = NoCall
  /\ prompts = <<>>
  /\ searchQuery = <<>>
  /\ selectedTag = <<>>
  /\ filteredPrompts = <<>>
  /\ filterPending = FALSE
  /\ ctl = [op |-> "load", pc |-> "store"]
  /\ inst = <<>>

CtlIdle == ctl.op = "none"

\* loadPrompts: getPrompts, sort by order, setPrompts
LoadPrompts ==
  /\ \/ ctl.op = "load"
     \/ ctl.op = "import" /\ ctl.pc = "reload"
  /\ prompts' = SortByOrder(getPrompts(St, now, NoFault).v)
  /\ filterPending' = TRUE
  /\ ctl' = NoCall
  /\ UNCHANGED <<now, storeVars, dateVars, searchQuery, selectedTag,
                 filteredPrompts, inst>>

\* handleSubmit without editingPrompt, up to await storageUtils.addPrompt
SubmitNew ==
  /\ CtlIdle
  /\ ~filterPending
  /\ Len(prompts) < MaxPrompts
  /\ Len(Primary(St)) < MaxPrompts
  /\ \E id \in Ids \ (IdsOf(prompts) \cup IdsOf(Primary(St))), form \in Forms :
       ctl' = [op |-> "add", pc |-> "store",
               arg |-> NewPrompt(id, form,
                                 <<createCurrentDate(now), createCurrentDate(now)>>,
                                 Len(prompts))]
  /\ UNCHANGED <<now, storeVars, dateVars, viewVars, inst>>

\* handleEdit(prompt) and handleSubmit with editingPrompt, up to await
\* storageUtils.updatePrompt
SubmitEdit ==
  /\ CtlIdle
  /\ ~filterPending
  /\ \E i \in 1..Len(filteredPrompts), form \in Forms :
       ctl' = [op |-> "edit", pc |-> "store",
               arg |-> UpdatedPrompt(filteredPrompts[i], form, now)]
  /\ UNCHANGED <<now, storeVars, dateVars, viewVars, inst>>

\* handleDelete, up to await storageUtils.deletePrompt
HandleDelete ==
  /\ CtlIdle
  /\ ~filterPending
  /\ \E i \in 1..Len(filteredPrompts) :
       ctl' = [op |-> "delete", pc |-> "store", arg |-> filteredPrompts[i].id]
  /\ UNCHANGED <<now, storeVars, dateVars, viewVars, inst>>

\* handleDragEnd: Array.from(prompts), splice(startIndex, 1),
\* splice(endIndex, 0, removed); positions counted from 1
MoveItem(list, startIndex, endIndex) ==
  [i \in 1..Len(list) |->
     IF i = endIndex THEN list[startIndex]
     ELSE IF startIndex < endIndex
          THEN (IF i >= startIndex /\ i < endIndex THEN list[i + 1] ELSE list[i])
          ELSE (IF i > endIndex /\ i <= startIndex THEN list[i - 1] ELSE list[i])]

\* handleDragEnd on the list shown (prompts={filteredPrompts}) and
\* handleReorder, up to await storageUtils.reorderPrompts:
\* setPrompts(reorderedPrompts) comes before the await
HandleReorder ==
  /\ CtlIdle
  /\ ~filterPending
  /\ \E startIndex, endIndex \in 1..Len(filteredPrompts) :
       /\ startIndex # endIndex
       /\ \E reorderedPrompts \in {MoveItem(filteredPrompts, startIndex, endIndex)} :
            /\ prompts' = reorderedPrompts
            /\ ctl' = [op |-> "reorder", pc |-> "store", arg |-> reorderedPrompts]
  /\ filterPending' = TRUE
  /\ UNCHANGED <<now, storeVars, dateVars, searchQuery, selectedTag,
                 filteredPrompts, inst>>

\* handleImport, up to await storageUtils.importPrompts(file)
HandleImport ==
  /\ CtlIdle
  /\ ~filterPending
  /\ \E file \in CtlFiles :
       ctl' = [op |-> "import", pc |-> "store", arg |-> file]
  /\ UNCHANGED <<now, storeVars, dateVars, viewVars, inst>>

\* The storageUtils call the handler awaits
CtlCall(st, c, t) ==
  IF c.op = "add" THEN addPrompt(st, c.arg, t, NoFaults)
  ELSE IF c.op = "edit" THEN updatePrompt(st, c.arg, t, NoFaults)
  ELSE IF c.op = "delete" THEN deletePrompt(st, c.arg, t, NoFaults)
  ELSE reorderPrompts(st, c.arg, t, NoFault)

\* The awaited call of handleSubmit, handleDelete or handleReorder
\* completes; nothing follows the await of handleReorder
StorageCallDone ==
  /\ ctl.op \in {"add", "edit", "delete", "reorder"}
  /\ ctl.pc = "store"
  /\ \E done \in {CtlCall(St, ctl, now)} : SetStores(done.st)
  /\ ctl' = IF ctl.op = "reorder" THEN NoCall ELSE [ctl EXCEPT !.pc = "reflect"]
  /\ UNCHANGED <<now, lastOp, dateVars, viewVars, inst>>

\* importPrompts completes: loadPrompts follows when result.success and
\* result.imported > 0
ImportCallDone ==
  /\ ctl.op = "import"
  /\ ctl.pc = "store"
  /\ \E done \in {importPrompts(St, ctl.arg, now, NoFaults)} :
       /\ Len(Primary(done.st)) <= MaxPrompts
       /\ \A i \in 1..Len(Primary(done.st)) : Primary(done.st)[i].order <= MaxOrd
       /\ SetStores(done.st)
       /\ ctl' = IF done.result.success /\ done.result.imported > 0
                 THEN [ctl EXCEPT !.pc = "reload"] ELSE NoCall
  /\ UNCHANGED <<now, lastOp, dateVars, viewVars, inst>>

\* The setPrompts after the await of handleSubmit and handleDelete
Reflected(ps, c) ==
  IF c.op = "add" THEN Append(ps, c.arg)
  ELSE IF c.op = "edit"
       THEN [i \in 1..Len(ps) |-> IF ps[i].id = c.arg.id THEN c.arg ELSE ps[i]]
  ELSE LET keep(p) == p.id # c.arg IN SelectSeq(ps, keep)

Reflect ==
  /\ ctl.op \in {"add", "edit", "delete"}
  /\ ctl.pc = "reflect"
  /\ prompts' = Reflected(prompts, ctl)
  /\ filterPending' = TRUE
  /\ ctl' = NoCall
  /\ UNCHANGED <<now, storeVars, dateVars, searchQuery, selectedTag,
                 filteredPrompts, inst>>

NextCtl ==
  \/ LoadPrompts
  \/ SubmitNew
  \/ SubmitEdit
  \/ HandleDelete
  \/ HandleReorder
  \/ HandleImport
  \/ StorageCallDone
  \/ ImportCallDone
  \/ Reflect
  \/ ToggleTag
  \/ ClearTag
  \/ FilterEffect

SpecCtl == InitCtl /\ [][NextCtl]_vars

\* C12: for every mutation issued through the controller (create, edit,
\* delete, reorder) the in-memory collection changes only once the store
\* write of that mutation has completed: no step changes prompts while the
\* handler has not started or is still awaiting its storageUtils call.
C12_ViewChangesAfterWrite ==
  [][ prompts' # prompts
      => \/ ctl.op = "load"
         \/ ctl.op \in {"add", "edit", "delete", "import"}
              /\ ctl.pc \in {"reflect", "reload"} ]_vars

\* The fields the in-memory collection and the persisted one are compared on
CoreFields(p) ==
  [id |-> p.id, title |-> p.title, content |-> p.content, tags |-> p.tags,
   order |-> p.order]

CoreRecords(ps) == { CoreFields(ps[i]) : i \in 1..Len(ps) }

\* C13: whenever no controller operation is in flight, the in-memory
\* collection holds exactly the records of the persisted collection: as
\* many, with the same ids and the same title, content, tags and order.
C13_ViewMatchesStore ==
  CtlIdle
  => /\ Len(prompts) = Len(Primary(St))
     /\ CoreRecords(prompts) = CoreRecords(Primary(St))

\* C20: editing a record through the controller changes only its title,
\* content, tags and updatedAt.  When the updatePrompt of an edit
\* completes, the persisted collection has as many records as before, the
\* record with the edited id keeps its id, createdAt and order, and every
\* other record is as it was.
C20_EditChangesOnlyItsFields ==
  [][ (ctl.op = "edit" /\ ctl.pc = "store" /\ ctl'.pc = "reflect")
      => LET before == Primary(St)
             after == Primary(StOf(hasChrome', chromeStore', localStore'))
         IN  /\ Len(after) = Len(before)
             /\ \A i \in 1..Len(before) :
                  IF before[i].id = ctl.arg.id
                  THEN /\ after[i].id = before[i].id
                       /\ after[i].createdAt = before[i].createdAt
                       /\ after[i].order = before[i].order
                  ELSE after[i] = before[i] ]_vars

(***************************************************************************)
(* Claims about the store under failing accesses and malformed data        *)
(***************************************************************************)
IsIsoString(x) == x.k = "string" /\ x.v.f = "iso"

AllTimestampsIso(ps) ==
  \A i \in 1..Len(ps) : IsIsoString(ps[i].createdAt) /\ IsIsoString(ps[i].updatedAt)

\* C14: every record written to the primary store or to the fallback store
\* has createdAt and updatedAt as ISO strings, whatever form (Date, string,
\* number, missing) they had in the records passed: a step that changes a
\* store leaves only ISO strings in it.
C14_WrittenTimestampsAreIso ==
  [][ /\ chromeStore' # chromeStore => AllTimestampsIso(chromeStore')
      /\ localStore' # localStore => AllTimestampsIso(localStore') ]_vars

\* with chrome.storage failing, savePrompts has written to localStorage two
\* records passed with {} and an unparsable text, after the clock advanced
C14_Witness ==
  /\ lastOp.op = "savePrompts"
  /\ hasChrome /\ lastOp.f.primary /\ ~lastOp.f.fallback
  /\ Len(lastOp.arg) = 2
  /\ lastOp.arg[1].createdAt = PlainObject
  /\ now > 0
  /\ Len(localStore) = 2
  /\ localStore[1].createdAt = Str(toISOString(FromNat(now)))

\* A failure occurred in importPrompts(file) on storage st with faults f:
\* the file is unusable, an entry of its prompts array is not an object,
\* the read of the existing collection fails, or there is a record to add
\* and the write fails
ImportFailureOccurred(st, file, f) ==
  \/ file.file # "json"
  \/ file.data.k # "object"
  \/ file.data.prompts.k # "array"
  \/ \E i \in 1..Len(file.data.prompts.v) : file.data.prompts.v[i].k # "object"
  \/ BothFail(f.read)
  \/ /\ BothFail(f.write)
     /\ \E i \in 1..Len(file.data.prompts.v) :
          /\ ValidCandidate(file.data.prompts.v[i])
          /\ ~SameTitleAndContent(file.data.prompts.v[i], st[StoreUsed(st, f.read)])

\* C15: importPrompts never raises: for every file and every storage
\* failure the promise resolves to a result, with success = false and
\* imported = 0 whenever a failure occurred.
C15_ImportNeverRaises ==
  [][ (lastOp = NoCall /\ lastOp'.op = "importPrompts")
      => /\ ~lastOp'.threw
         /\ ImportFailureOccurred(St, lastOp'.arg, lastOp'.f)
              => /\ lastOp'.result.success = FALSE
                 /\ lastOp'.result.imported = 0 ]_vars

\* a document with a new candidate was imported, the read succeeded and
\* the write failed in the primary and in the fallback store
C15_Witness ==
  /\ lastOp.op = "importPrompts"
  /\ IsCandidateList(lastOp.arg)
  /\ ~BothFail(lastOp.f.read)
  /\ BothFail(lastOp.f.write)
  /\ ImportFailureOccurred(St, lastOp.arg, lastOp.f)
  /\ lastOp.result.success = FALSE

\* A stored timestamp that is missing or malformed: nothing, null, an
\* object, a string that is not a date, a negative number, a number beyond
\* the range of Date
IsBadTimestamp(x) ==
  \/ x.k \in {"null", "undefined", "object"}
  \/ x.k = "string" /\ x.v.f # "iso"
  \/ x.k = "number" /\ (x.neg \/ ~x.finite \/ NumLess(MaxTimeValue, x.mag))

NowDate == [k |-> "Date", valid |-> TRUE, t |-> FromNat(now)]

Instances == {1, 2}

IdleInstance == [pc |-> "idle"]

InitRace ==
  /\ now = 0
  /\ hasChrome = TRUE
  /\ chromeStore \in CtlCollections
  /\ localStore = <<>>
  /\ lastOp = NoCall
  /\ dateIn = Undefined
  /\ dateOut = NoCall
  /\ prompts = <<>>
  /\ searchQuery = <<>>
  /\ selectedTag = <<>>
  /\ filteredPrompts = <<>>
  /\ filterPending = FALSE
  /\ ctl = NoCall
  /\ inst = [i \in Instances |-> IdleInstance]

\* The ids of the records the other instances are adding
PendingIds(i) ==
  { inst[j].arg.id : j \in { k \in Instances \ {i} :
                               inst[k].pc # "idle" /\ inst[k].op = "add" } }

\* Instance i calls addPrompt(newPrompt), with a fresh id, and the
\* getPrompts of the call completes
RaceAddRead ==
  \E i \in Instances, form \in RaceForms :
    /\ inst[i].pc = "idle"
    /\ Len(Primary(St)) < MaxPrompts
    /\ \E id \in Ids \ (IdsOf(Primary(St)) \cup PendingIds(i)) :
         inst' = [inst EXCEPT ![i] =
                    [pc |-> "read", op |-> "add",
                     arg |-> NewPrompt(id, form,
                                       <<createCurrentDate(now), createCurrentDate(now)>>,
                                       Len(Primary(St))),
                     got |-> getPrompts(St, now, NoFault).v]]
    /\ UNCHANGED <<now, storeVars, dateVars, viewVars, ctl>>

\* Instance i calls deletePrompt(id) for a record it shows, and the
\* getPrompts of the call completes
RaceDeleteRead ==
  \E i \in Instances, id \in IdsOf(Primary(St)) :
    /\ inst[i].pc = "idle"
    /\ inst' = [inst EXCEPT ![i] =
                  [pc |-> "read", op |-> "delete", arg |-> id,
                   got |-> getPrompts(St, now, NoFault).v]]
    /\ UNCHANGED <<now, storeVars, dateVars, viewVars, ctl>>

\* the list written, computed from the store as it is at the write (the
\* read and the write as one step)
ListToWrite_FromCurrentStore(c) ==
  IF c.op = "add" THEN Append(getPrompts(St, now, NoFault).v, c.arg)
  ELSE LET keep(p) == p.id # c.arg IN SelectSeq(getPrompts(St, now, NoFault).v, keep)

\* prompts.push(prompt), or prompts.filter(p => p.id !== promptId), on the
\* collection the call read
ListToWrite(c) ==
  IF c.op = "add" THEN Append(c.got, c.arg)
  ELSE LET keep(p) == p.id # c.arg IN SelectSeq(c.got, keep)

\* The savePrompts of the call of instance i completes
RaceWrite ==
  \E i \in Instances :
    /\ inst[i].pc = "read"
    /\ \E done \in {savePrompts(St, ListToWrite(inst[i]), now, NoFault)} :
         /\ SetStores(done.st)
         /\ inst' = [inst EXCEPT ![i] = [@ EXCEPT !.pc = "done"] @@ [threw |-> done.threw]]
    /\ UNCHANGED <<now, lastOp, dateVars, viewVars, ctl>>

\* The call returns to instance i
RaceReturn ==
  \E i \in Instances :
    /\ inst[i].pc = "done"
    /\ inst' = [inst EXCEPT ![i] = IdleInstance]
    /\ UNCHANGED <<now, storeVars, dateVars, viewVars, ctl>>

NextRace ==
  \/ RaceAddRead
  \/ RaceDeleteRead
  \/ RaceWrite
  \/ RaceReturn

SpecRace == InitRace /\ [][NextRace]_vars

IdSeq(ps) == [k \in 1..Len(ps) |-> ps[k].id]

\* C18: the last write silently wins.  When the write of an instance
\* completes, no error is reported and the persisted collection is the one
\* that instance read, with its own record added or removed, whatever
\* another instance wrote in between; so an execution is reachable after
\* which the persisted collection lacks the effect of one of two
\* operations (C18_Witness).
C18_LastWriteWins ==
  [][ \A i \in Instances :
        (inst[i].pc = "read" /\ inst'[i].pc = "done")
        => /\ ~inst'[i].threw
           /\ IdSeq(Primary(StOf(hasChrome', chromeStore', localStore'))) =
                IF inst[i].op = "add"
                THEN Append(IdSeq(inst[i].got), inst[i].arg.id)
                ELSE LET keep(id) == id # inst[i].arg IN SelectSeq(IdSeq(inst[i].got), keep) ]_vars

\* both instances have completed an addPrompt without an error, and the
\* persisted collection holds the record of the second and lacks the
\* record of the first
C18_Witness ==
  /\ \A i \in Instances : inst[i].pc = "done" /\ inst[i].op = "add" /\ ~inst[i].threw
  /\ inst[1].arg.id \notin IdsOf(Primary(St))
  /\ inst[2].arg.id \in IdsOf(Primary(St))

(***************************************************************************)
(* Claims about the calls that read the collection and write it back       *)
(***************************************************************************)
\* a list without its records of the given id
WithoutId(ps, id) == LET keep(p) == p.id # id IN SelectSeq(ps, keep)

\* C21: deletePrompt(id) for an id present in the collection removes the
\* record with that id and nothing else: with both stores working, the
\* persisted collection afterwards is the one before without that record,
\* every other record with the field values it had and in the same
\* relative position.
C21_DeleteRemovesOnlyTarget ==
  [][ (/\ lastOp = NoCall
       /\ lastOp'.op = "deletePrompt"
       /\ lastOp'.f = NoFaults
       /\ lastOp'.arg \in IdsOf(Primary(St)))
      => PrimaryAfter = WithoutId(Primary(St), lastOp'.arg) ]_vars

(***************************************************************************)
(* Claims about the controller with a filter active                        *)
(***************************************************************************)
\* C22: a drag-and-drop reorder never removes records.  When the
\* reorderPrompts of handleReorder completes, the persisted collection has
\* the ids it had before, also when a tag filter is active and the list
\* dragged is the filtered view.
C22_ReorderKeepsAllRecords ==
  [][ (ctl.op = "reorder" /\ ctl.pc = "store" /\ ctl' = NoCall)
      => IdsOf(PrimaryAfter) = IdsOf(Primary(St)) ]_vars

(***************************************************************************)
(* Claims about overlapping calls                                          *)
(***************************************************************************)
\* The id a call adds or deletes
TargetId(c) == IF c.op = "add" THEN c.arg.id ELSE c.arg

\* The persisted collection has the effect of call c
TookEffect(c) ==
  IF c.op = "add" THEN c.arg.id \in IdsOf(Primary(St))
  ELSE c.arg \notin IdsOf(Primary(St))

\* C23: two mutating operations started without waiting for the first to
\* finish both take effect.  When two calls on different records (two
\* deletes, or a delete and a create) have both completed, whatever the
\* interleaving of their reads and writes, the persisted collection has
\* the effect of both.
C23_BothMutationsTakeEffect ==
  (/\ \A i \in Instances : inst[i].pc = "done"
   /\ TargetId(inst[1]) # TargetId(inst[2]))
  => \A i \in Instances : TookEffect(inst[i])

(***************************************************************************)
(* Claims about the order shown and the order stored                       *)
(***************************************************************************)
\* What loadPrompts would show: the stored collection sorted by order
Reloaded == SortByOrder(Listed)

\* C24: display order is stable across reload.  Whenever no handler is in
\* flight, the sequence of ids shown in memory is the sequence obtained by
\* reloading from storage and sorting by order ascending; in particular a
\* record created with order = the length of the collection is shown last
\* after a reload, also after earlier deletions.
C24_OrderStableAcrossReload ==
  CtlIdle => IdSeq(prompts) = IdSeq(Reloaded)

\* A collection as reorderPrompts stores it: the record at position i has
\* order i (counted from 0)
StoredAsReordered(ps) == \A i \in 1..Len(ps) : ps[i].order = i - 1

UniqueIds(ps) == \A i, j \in 1..Len(ps) : ps[i].id = ps[j].id => i = j

\* C25: editing a record after a reorder keeps the reordered position.
\* When the persisted collection is P as reorderPrompts stored it (ids
\* distinct) and the updatePrompt of an edit of a record of P completes,
\* the persisted order of the edited record is still its index in P, and
\* a reload sorted by order still yields the records in the sequence P.
C25_EditKeepsReorderedPosition ==
  [][ (/\ ctl.op = "edit" /\ ctl.pc = "store" /\ ctl'.pc = "reflect"
       /\ StoredAsReordered(Primary(St))
       /\ UniqueIds(Primary(St))
       /\ ctl.arg.id \in IdsOf(Primary(St)))
      => /\ \A i \in 1..Len(PrimaryAfter) :
              PrimaryAfter[i].id = ctl.arg.id => PrimaryAfter[i].order = i - 1
         /\ IdSeq(SortByOrder(PrimaryAfter)) = IdSeq(Primary(St)) ]_vars

(***************************************************************************)
(* Claims about the fallback store                                         *)
(***************************************************************************)
\* C26: the write fallback is read-coherent.  When the primary write of
\* savePrompts threw and the fallback write succeeded, a following
\* getPrompts whose primary read succeeds returns the collection just
\* saved, not the older content of the primary store.
C26_WriteFallbackIsReadCoherent ==
  (/\ lastOp.op = "savePrompts"
   /\ lastOp.f.primary
   /\ ~lastOp.f.fallback)
  => /\ ~lastOp.threw
     /\ Listed = RestorePrompts(SerializePrompts(lastOp.arg, now), now)

\* The id a call of addPrompt, updatePrompt or deletePrompt is about
TargetOf(call) == IF call.op = "deletePrompt" THEN call.arg ELSE call.arg.id

\* C27: a transient read failure does not lose data.  When the primary
\* read throws in the read step of addPrompt, updatePrompt or deletePrompt
\* (the fallback read succeeds) and the following write to the primary
\* store succeeds, every record that was in the primary store before the
\* call, other than the call's target, is still in it afterwards.
C27_ReadFailureLosesNothing ==
  [][ (/\ lastOp = NoCall
       /\ lastOp'.op \in {"addPrompt", "updatePrompt", "deletePrompt"}
       /\ lastOp'.f.read.primary /\ ~lastOp'.f.read.fallback
       /\ ~lastOp'.f.write.primary)
      => IdsOf(Primary(St)) \ {TargetOf(lastOp')} \subseteq IdsOf(PrimaryAfter) ]_vars

(***************************************************************************)
(* Claims about the tag filter of the controller                           *)
(***************************************************************************)
\* C30: an active tag filter always refers to an existing tag.  Whenever
\* selectedTag is non-empty, some record of the in-memory collection
\* carries that tag, so the tag bar, which holds the clear control, is
\* shown.
C30_SelectedTagExists ==
  selectedTag # <<>>
  => /\ selectedTag \in getAllTags(prompts)
     /\ getAllTags(prompts) # {}
====
